---- MODULE Spec2Model ----
(***************************************************************************)
(* Igloo API (src/main.py, src/schemas.py): the request handlers of the    *)
(* FastAPI application over the document store.  A request is a sequence   *)
(* of store operations; every single store operation is atomic and the    *)
(* operations of concurrent requests interleave freely.                    *)
(***************************************************************************)
EXTENDS Integers, Sequences, FiniteSets, TLC

VARIABLES
    user,            \* db["user"]: documents in natural (insertion) order
    vendorkyc,       \* db["vendorkyc"]
    apartment,       \* db["apartment"]
    review,          \* db["review"]
    favorite,        \* db["favorite"]
    messagethread,   \* db["messagethread"]
    message,         \* db["message"]
    bookinginterest, \* db["bookinginterest"]
    nextOid,         \* the next ObjectId the store generates
    clock,           \* datetime.now(timezone.utc), a logical clock
    tokens,          \* the bearer tokens clients hold
    budget,          \* the number of requests the clients still issue
    reqs             \* the requests issued so far, in order of their first step

vars == <<user, vendorkyc, apartment, review, favorite, messagethread, message,
          bookinginterest, nextOid, clock, tokens, budget, reqs>>

store == <<user, vendorkyc, apartment, review, favorite, messagethread, message,
           bookinginterest>>

----------------------------------------------------------------------------
(* Bounds of the model.                                                    *)

\* requests issued in one behaviour of the messaging specifications
MaxMsgReqs == 2

\* requests issued in one behaviour of the favorites specification
MaxFavReqs == 2

\* requests issued in one behaviour of the review specifications
MaxRevReqs == 2

\* requests issued in one behaviour of the registration specifications
MaxAuthReqs == 3

\* requests issued in one behaviour of the specification of all routes
MaxAllReqs == 1

\* requests issued in one behaviour of the listing specification
MaxListReqs == 1

\* requests issued in one behaviour of the KYC specification
MaxKycReqs == 2

\* requests issued in one behaviour of the specification of apartment writes
MaxRateReqs == 2

\* requests issued in one behaviour of the specification of own records
MaxMineReqs == 2

----------------------------------------------------------------------------
(* Identifiers.  An ObjectId is a natural number; a public id is a string, *)
(* modelled as a record: hex tells whether the string is a well-formed     *)
(* 24-digit hex string, n is the ObjectId it denotes when it is.           *)

\* str(oid), src/main.py:89
Str(oid) == [hex |-> TRUE, n |-> oid]

\* a well-formed id string that names no stored document
Absent == [hex |-> TRUE, n |-> 0]

\* a string that is no ObjectId, e.g. "abc"
Malformed == [hex |-> FALSE, n |-> 0]

\* bson.ObjectId.is_valid: ObjectId(s) raises InvalidId when this is FALSE
IsValidOid(s) == s.hex

\* bson.ObjectId(s) for a well-formed s
ObjectId(s) == s.n

Null == "null"

----------------------------------------------------------------------------
(* The store: collections are sequences of documents.                      *)

Range(s) == {s[i] : i \in DOMAIN s}

\* a find that ignores its filter
FindAll(coll, hits) == coll

\* collection.find(filter): the documents of coll among hits, the documents
\* the filter matches, in natural order
Find(coll, hits) == SelectSeq(coll, LAMBDA d : d \in hits)

\* collection.find_one(filter): <<>> for None, else <<doc>>.  The store
\* promises no order among several matches, so each of them is a result.
FindOne(hits) == IF hits = {} THEN {<<>>} ELSE {<<d>> : d \in hits}

\* doc["id"] = str(doc.pop("_id")) of find_one and list_with_id
WithId(doc) ==
    [k \in (DOMAIN doc \ {"_id"}) \cup {"id"} |-> IF k = "id" THEN Str(doc._id) ELSE doc[k]]

\* list_with_id(cursor)
list_with_id(docs) == [i \in DOMAIN docs |-> WithId(docs[i])]

\* {"$set": fields} applied to a document
SetFields(doc, fields) ==
    [k \in DOMAIN doc \cup DOMAIN fields |-> IF k \in DOMAIN fields THEN fields[k] ELSE doc[k]]

\* collection.update_one({"_id": oid}, {"$set": fields}); no match is a no-op
UpdateOne(coll, oid, fields) ==
    [i \in DOMAIN coll |-> IF coll[i]._id = oid THEN SetFields(coll[i], fields) ELSE coll[i]]

\* the sort key of a document: 0 (null) when the field is missing
SortKey(d, field) == IF field \in DOMAIN d THEN d[field] ELSE 0

\* cursor.sort(field, dir), dir 1 ascending and -1 descending: every order of
\* the documents that is monotone in the field; documents that lack the
\* field all sort as null, in any order
Sort(docs, field, dir) ==
    LET n == Len(docs)
        perms == {p \in [1..n -> 1..n] : \A i, j \in 1..n : i # j => p[i] # p[j]}
    IN  {[i \in 1..n |-> docs[p[i]]] : p \in
            {q \in perms : \A i, j \in 1..n :
                i < j => dir * SortKey(docs[q[i]], field) <= dir * SortKey(docs[q[j]], field)}}

----------------------------------------------------------------------------
(* Tokens and the access control guard.                                    *)

\* create_access_token: the claims of a token issued for a stored user
create_access_token(sub, role) == [valid |-> TRUE, sub |-> sub, role |-> role]

\* a token whose signature is wrong or that has expired
BadToken == [valid |-> FALSE, sub |-> Malformed, role |-> ""]

\* no token: register and login take none
Anonymous == [valid |-> FALSE, sub |-> Malformed, role |-> "anonymous"]

\* get_current_user: the principal of a token; 401 when it does not verify
get_current_user(token) == IF token.valid THEN 200 ELSE 401

\* a guard with role inheritance: an admin passes every role check
require_role_admin_inherits(token, required) ==
    IF get_current_user(token) # 200 THEN get_current_user(token)
    ELSE IF token.role \notin required \cup {"admin"} THEN 403
    ELSE 200

\* require_role(required): 401 from get_current_user, 403 when the role is
\* not listed, else 200
require_role(token, required) ==
    IF get_current_user(token) # 200 THEN get_current_user(token)
    ELSE IF token.role \notin required THEN 403
    ELSE 200

\* the allowed-role set each protected operation declares
AllowedRoles(op) ==
    CASE op = "submit_kyc" -> {"vendor"}
      [] op = "get_my_kyc" -> {"vendor"}
      [] op = "create_apartment" -> {"vendor"}
      [] op = "add_review" -> {"user", "vendor"}
      [] op = "save_favorite" -> {"user", "vendor"}
      [] op = "my_favorites" -> {"user", "vendor"}
      [] op = "create_thread" -> {"user"}
      [] op = "send_message" -> {"user", "vendor"}
      [] op = "my_threads" -> {"user", "vendor"}
      [] op = "thread_messages" -> {"user", "vendor"}
      [] op = "create_booking" -> {"user"}
      [] op = "my_bookings" -> {"user", "vendor"}
      [] op = "admin_overview" -> {"admin"}
      [] op = "admin_list_kyc" -> {"admin"}
      [] op = "admin_kyc_decision" -> {"admin"}
      [] op = "admin_listings" -> {"admin"}
      [] op = "admin_toggle_listing" -> {"admin"}

----------------------------------------------------------------------------
(* Requests.  A request record keeps the operation, the token, the         *)
(* arguments, the handler's position (pc), its locals (loc), the number of *)
(* store operations it has issued (ops) and, once pc = "done", the         *)
(* response: the HTTP status, the detail of an error and the body (out).   *)
(* Status 500 is an exception no handler catches.  after is the set of the *)
(* requests that had completed when this one was issued.                   *)

NewReq(op, token, arg) ==
    [op |-> op, who |-> token, arg |-> arg, pc |-> "new", loc |-> <<>>, ops |-> 0,
     status |-> 0, detail |-> "", out |-> <<>>, after |-> {}]

\* the handler returns or raises: the response of request r
Respond(r, status, detail, out, ops) ==
    [r EXCEPT !.pc = "done", !.status = status, !.detail = detail, !.out = out,
              !.ops = ops]

\* the handler stops between two store operations
Suspend(r, pc, loc, ops) == [r EXCEPT !.pc = pc, !.loc = loc, !.ops = ops]

\* the dependency raised before the handler body ran
Rejected(r, status) ==
    Respond(r, status,
            IF status = 401 THEN "Invalid or expired token" ELSE "Insufficient permissions",
            <<>>, 0)

Quiet == \A i \in DOMAIN reqs : reqs[i].pc = "done"

idStrings(coll) == {Str(d._id) : d \in Range(coll)} \cup {Absent, Malformed}

----------------------------------------------------------------------------
(* Messaging: create_thread, send_message, thread_messages.                *)

Bodies == {"hi", "yo"}

\* a client issues request r, which has run up to its first suspension
Issue(r) ==
    /\ reqs' = Append(reqs, [r EXCEPT !.after = {i \in DOMAIN reqs : reqs[i].pc = "done"}])
    /\ budget' = budget - 1

\* MessageThreadSchema(student_id, vendor_id).model_dump() with its _id
NewThread(oid, student_id, vendor_id) ==
    [_id |-> oid, student_id |-> student_id, vendor_id |-> vendor_id,
     last_message |-> Null, last_time |-> 0]

\* a find_one that filters on the student alone
SamePairStudentOnly(t, student_id, vendor_id) == t.student_id = student_id

\* the filter of create_thread's find_one
SamePair(t, student_id, vendor_id) == t.student_id = student_id /\ t.vendor_id = vendor_id

\* create_thread, up to and including its find_one
create_thread_find(r) ==
    LET g == require_role(r.who, AllowedRoles("create_thread")) IN
    /\ UNCHANGED <<store, nextOid, clock, tokens>>
    /\ IF g # 200
       THEN Issue(Rejected(r, g))
       ELSE \E existing \in FindOne({t \in Range(messagethread) :
                                        SamePair(t, r.who.sub, r.arg.vendor_id)}) :
              IF existing # <<>>
              THEN Issue(Respond(r, 200, "", [id |-> Str(existing[1]._id)], 1))
              ELSE Issue(Suspend(r, "insert", <<>>, 1))

\* create_thread: the insert_one after no thread was found
create_thread_insert ==
    \E i \in DOMAIN reqs :
      LET r == reqs[i] IN
      /\ r.op = "create_thread" /\ r.pc = "insert"
      /\ messagethread' = Append(messagethread, NewThread(nextOid, r.who.sub, r.arg.vendor_id))
      /\ nextOid' = nextOid + 1
      /\ reqs' = [reqs EXCEPT ![i] = Respond(r, 200, "", [id |-> Str(nextOid)], r.ops + 1)]
      /\ UNCHANGED <<user, vendorkyc, apartment, review, favorite, message, bookinginterest,
                     clock, tokens, budget>>

\* POST /threads: vendor_id is the id of a vendor or of no user at all
create_thread ==
    /\ budget > 0
    /\ \E tok \in tokens :
       \E v \in {Str(u._id) : u \in {x \in Range(user) : x.role = "vendor"}} \cup {Absent} :
          create_thread_find(NewReq("create_thread", tok, [vendor_id |-> v]))

\* a participant check that forgets the vendor side
NotParticipantUserOnly(token, thread) ==
    token.role = "user" /\ thread.student_id # token.sub

\* the participant check of send_message and thread_messages
NotParticipant(token, thread) ==
    \/ token.role = "user" /\ thread.student_id # token.sub
    \/ token.role = "vendor" /\ thread.vendor_id # token.sub

\* send_message / thread_messages, up to and including the find_one of the
\* thread and the participant check; next is the pc of an accepted request
thread_lookup(r, next) ==
    LET g == require_role(r.who, AllowedRoles(r.op)) IN
    /\ UNCHANGED <<store, nextOid, clock, tokens>>
    /\ IF g # 200
       THEN Issue(Rejected(r, g))
       ELSE IF ~IsValidOid(r.arg.thread_id)
       THEN Issue(Respond(r, 500, "InvalidId", <<>>, 0))
       ELSE \E thread \in FindOne({t \in Range(messagethread) :
                                      t._id = ObjectId(r.arg.thread_id)}) :
              IF thread = <<>>
              THEN Issue(Respond(r, 404, "Thread not found", <<>>, 1))
              ELSE IF NotParticipant(r.who, thread[1])
              THEN Issue(Respond(r, 403, "Not participant", <<>>, 1))
              ELSE Issue(Suspend(r, next, thread[1], 1))

\* a message whose recipient is always the vendor of the thread
NewMessageToVendor(oid, thread_id, token, thread, body) ==
    [_id |-> oid, thread_id |-> thread_id, from_user_id |-> token.sub,
     to_user_id |-> thread.vendor_id, body |-> body]

\* MessageSchema(...).model_dump() with its _id
NewMessage(oid, thread_id, token, thread, body) ==
    [_id |-> oid, thread_id |-> thread_id, from_user_id |-> token.sub,
     to_user_id |-> IF token.role = "user" THEN thread.vendor_id ELSE thread.student_id,
     body |-> body]

\* send_message: the insert_one of the message
send_message_insert ==
    \E i \in DOMAIN reqs :
      LET r == reqs[i] IN
      /\ r.op = "send_message" /\ r.pc = "insert"
      /\ message' = Append(message,
                           NewMessage(nextOid, r.arg.thread_id, r.who, r.loc, r.arg.body))
      /\ nextOid' = nextOid + 1
      /\ reqs' = [reqs EXCEPT ![i] = Suspend(r, "update", r.loc, r.ops + 1)]
      /\ UNCHANGED <<user, vendorkyc, apartment, review, favorite, messagethread,
                     bookinginterest, clock, tokens, budget>>

\* send_message: the update_one of the thread summary
send_message_update ==
    \E i \in DOMAIN reqs :
      LET r == reqs[i] IN
      /\ r.op = "send_message" /\ r.pc = "update"
      /\ clock' = clock + 1
      /\ messagethread' = UpdateOne(messagethread, ObjectId(r.arg.thread_id),
              [last_message |-> r.arg.body, last_time |-> clock'])
      /\ reqs' = [reqs EXCEPT ![i] = Respond(r, 200, "", [ok |-> TRUE], r.ops + 1)]
      /\ UNCHANGED <<user, vendorkyc, apartment, review, favorite, message, bookinginterest,
                     nextOid, tokens, budget>>

\* POST /messages
send_message ==
    /\ budget > 0
    /\ \E tok \in tokens, t \in idStrings(messagethread), b \in Bodies :
          thread_lookup(NewReq("send_message", tok, [thread_id |-> t, body |-> b]), "insert")

\* thread_messages: the find of the thread's messages, sorted by created_at
thread_messages_list ==
    \E i \in DOMAIN reqs :
      LET r == reqs[i] IN
      /\ r.op = "thread_messages" /\ r.pc = "list"
      /\ \E items \in Sort(Find(message, {m \in Range(message) :
                                                  m.thread_id = r.arg.thread_id}),
                           "created_at", 1) :
            reqs' = [reqs EXCEPT ![i] = Respond(r, 200, "", list_with_id(items), r.ops + 1)]
      /\ UNCHANGED <<store, nextOid, clock, tokens, budget>>

\* GET /messages/{thread_id}
thread_messages ==
    /\ budget > 0
    /\ \E tok \in tokens, t \in idStrings(messagethread) :
          thread_lookup(NewReq("thread_messages", tok, [thread_id |-> t]), "list")

\* pwd_context.hash: a digest that does not compare equal to the password
Hash(password) == [bcrypt |-> password]

\* pwd_context.verify
Verify(password, digest) == digest = Hash(password)

\* User(role, email, password_hash=hashed, ...).model_dump() with its _id
NewUser(oid, role, email, password) ==
    [_id |-> oid, role |-> role, email |-> email, password_hash |-> Hash(password)]

TokenOf(u) == create_access_token(Str(u._id), u.role)

\* two students, two vendors and an admin have registered
MsgUsers ==
    << NewUser(1, "user", "s1", "pw"), NewUser(2, "user", "s2", "pw"),
       NewUser(3, "vendor", "v1", "pw"), NewUser(4, "vendor", "v2", "pw"),
       NewUser(5, "admin", "ad", "pw") >>

\* the messaging collections at the start: empty, or student 1 has opened a
\* thread with vendor 3, or has also posted "hi" in it
MsgSeeds ==
    { [messagethread |-> <<>>, message |-> <<>>, nextOid |-> 6, clock |-> 0],
      [messagethread |-> <<NewThread(6, Str(1), Str(3))>>, message |-> <<>>,
       nextOid |-> 7, clock |-> 0],
      [messagethread |-> <<[NewThread(6, Str(1), Str(3))
                              EXCEPT !.last_message = "hi", !.last_time = 1]>>,
       message |-> <<NewMessage(7, Str(6), TokenOf(MsgUsers[1]),
                                NewThread(6, Str(1), Str(3)), "hi")>>,
       nextOid |-> 8, clock |-> 1] }

InitMsg ==
    /\ user = MsgUsers
    /\ tokens = {TokenOf(u) : u \in Range(MsgUsers)}
    /\ vendorkyc = <<>> /\ apartment = <<>> /\ review = <<>> /\ favorite = <<>>
    /\ bookinginterest = <<>>
    /\ \E seed \in MsgSeeds :
          /\ messagethread = seed.messagethread /\ message = seed.message
          /\ nextOid = seed.nextOid /\ clock = seed.clock
    /\ budget = MaxMsgReqs
    /\ reqs = <<>>

StartMsg == create_thread \/ send_message \/ thread_messages

StepMsg ==
    \/ create_thread_insert
    \/ send_message_insert
    \/ send_message_update
    \/ thread_messages_list

NextMsg == StartMsg \/ StepMsg

\* messaging requests, their store operations interleaved
SpecMsg == InitMsg /\ [][NextMsg]_vars

\* messaging requests one at a time
NextMsgSeq == (Quiet /\ StartMsg) \/ StepMsg

SpecMsgSeq == InitMsg /\ [][NextMsgSeq]_vars

----------------------------------------------------------------------------
(* Apartments, favorites and reviews.                                      *)

\* a float that is the quotient of two integers, kept exact
Quot(num, den) == [num |-> num, den |-> den]

\* an Optional[...] value: None, or Some(v)
None == <<>>

Some(v) == <<v>>

\* a listing that takes rating_avg and rating_count from the body
NewApartmentRated(oid, vendor_id, data) ==
    [_id |-> oid, vendor_id |-> vendor_id, title |-> data.title,
     description |-> data.description, school |-> data.school, location |-> data.location,
     price_monthly |-> data.price_monthly, amenities |-> data.amenities,
     is_available |-> TRUE, rating_avg |-> data.rating_avg,
     rating_count |-> data.rating_count]

\* ApartmentSchema(vendor_id=user.id, ..., is_available=True).model_dump()
\* with its _id; rating_avg and rating_count take the schema's defaults and
\* keys of the body that ApartmentCreate does not declare are dropped.
\* title, location, description and the amenities are strings kept as
\* sequences of characters.
NewApartment(oid, vendor_id, data) ==
    [_id |-> oid, vendor_id |-> vendor_id, title |-> data.title,
     description |-> data.description, school |-> data.school, location |-> data.location,
     price_monthly |-> data.price_monthly, amenities |-> data.amenities,
     is_available |-> TRUE, rating_avg |-> Quot(0, 1), rating_count |-> 0]

\* the bodies of POST /apartments the clients send; a client may add keys
\* such as rating_avg and rating_count to the JSON body
ApartmentData ==
    { [title |-> <<"a", "b">>, description |-> None, school |-> "uni", location |-> <<"c">>,
       price_monthly |-> 500, amenities |-> << <<"w">> >>,
       rating_avg |-> Quot(5, 1), rating_count |-> 7] }

\* the filter of save_favorite's find_one
SameFavorite(f, apt_id, user_id) == f.apartment_id = apt_id /\ f.user_id = user_id

\* save_favorite, up to and including its find_one
save_favorite_find(r) ==
    LET g == require_role(r.who, AllowedRoles("save_favorite")) IN
    /\ UNCHANGED <<store, nextOid, clock, tokens>>
    /\ IF g # 200
       THEN Issue(Rejected(r, g))
       ELSE \E found \in FindOne({f \in Range(favorite) :
                                     SameFavorite(f, r.arg.apt_id, r.who.sub)}) :
              IF found # <<>>
              THEN Issue(Respond(r, 200, "", [ok |-> TRUE], 1))
              ELSE Issue(Suspend(r, "insert", <<>>, 1))

\* save_favorite: the insert_one after no favorite was found
save_favorite_insert ==
    \E i \in DOMAIN reqs :
      LET r == reqs[i] IN
      /\ r.op = "save_favorite" /\ r.pc = "insert"
      /\ favorite' = Append(favorite,
            [_id |-> nextOid, apartment_id |-> r.arg.apt_id, user_id |-> r.who.sub])
      /\ nextOid' = nextOid + 1
      /\ reqs' = [reqs EXCEPT ![i] = Respond(r, 200, "", [ok |-> TRUE], r.ops + 1)]
      /\ UNCHANGED <<user, vendorkyc, apartment, review, messagethread, message,
                     bookinginterest, clock, tokens, budget>>

\* POST /favorites/{apt_id}
save_favorite ==
    /\ budget > 0
    /\ \E tok \in tokens, a \in idStrings(apartment) :
          save_favorite_find(NewReq("save_favorite", tok, [apt_id |-> a]))

\* a student, a vendor and an admin have registered
FavUsers ==
    << NewUser(1, "user", "s1", "pw"), NewUser(2, "vendor", "v1", "pw"),
       NewUser(3, "admin", "ad", "pw") >>

\* the vendor's two listings
FavApartments ==
    << NewApartment(4, Str(2), CHOOSE d \in ApartmentData : TRUE),
       NewApartment(5, Str(2), CHOOSE d \in ApartmentData : TRUE) >>

\* the favorites at the start: none, or the student has saved listing 4
FavSeeds ==
    { [favorite |-> <<>>, nextOid |-> 6],
      [favorite |-> <<[_id |-> 6, apartment_id |-> Str(4), user_id |-> Str(1)]>>,
       nextOid |-> 7] }

InitFav ==
    /\ user = FavUsers
    /\ tokens = {TokenOf(u) : u \in Range(FavUsers)}
    /\ apartment = FavApartments
    /\ vendorkyc = <<>> /\ review = <<>> /\ messagethread = <<>> /\ message = <<>>
    /\ bookinginterest = <<>>
    /\ \E seed \in FavSeeds : favorite = seed.favorite /\ nextOid = seed.nextOid
    /\ clock = 0
    /\ budget = MaxFavReqs
    /\ reqs = <<>>

NextFav == save_favorite \/ save_favorite_insert

\* save_favorite requests, their store operations interleaved
SpecFav == InitFav /\ [][NextFav]_vars

----------------------------------------------------------------------------
(* Reviews and the rating aggregate.                                       *)

\* the ratings the clients send (Review.rating: ge=1, le=5)
Ratings == {3, 5}

\* a $match that matches every review
ReviewsOfAny(apt_id) == DOMAIN review

\* {"$match": {"apartment_id": apt_id}}: the positions of the matching reviews
ReviewsOf(apt_id) == {k \in DOMAIN review : review[k].apartment_id = apt_id}

RECURSIVE SumRatings(_)
\* {"$sum": "$rating"} over the reviews at the positions ks
SumRatings(ks) ==
    IF ks = {} THEN 0
    ELSE LET k == CHOOSE x \in ks : TRUE IN review[k].rating + SumRatings(ks \ {k})

\* the $group stage: no group for no review, else one group with the
\* average and the count of the matching reviews
Aggregate(apt_id) ==
    LET ks == ReviewsOf(apt_id) IN
    IF ks = {} THEN <<>>
    ELSE << [avg |-> Quot(SumRatings(ks), Cardinality(ks)), count |-> Cardinality(ks)] >>

\* add_review, up to and including the insert_one of the review
add_review_insert(r) ==
    LET g == require_role(r.who, AllowedRoles("add_review")) IN
    /\ UNCHANGED <<user, vendorkyc, apartment, favorite, messagethread, message,
                   bookinginterest, clock, tokens>>
    /\ IF g # 200
       THEN Issue(Rejected(r, g)) /\ UNCHANGED <<review, nextOid>>
       ELSE IF r.arg.apartment_id # r.arg.apt_id
       THEN /\ Issue(Respond(r, 400, "Mismatched apartment id", <<>>, 0))
            /\ UNCHANGED <<review, nextOid>>
       ELSE /\ review' = Append(review,
                   [_id |-> nextOid, apartment_id |-> r.arg.apartment_id,
                    user_id |-> r.who.sub, rating |-> r.arg.rating])
            /\ nextOid' = nextOid + 1
            /\ Issue(Suspend(r, "aggregate", <<>>, 1))

\* add_review: the aggregate over the reviews, then ObjectId(apt_id)
add_review_aggregate ==
    \E i \in DOMAIN reqs :
      LET r == reqs[i]
          stats == Aggregate(r.arg.apt_id)
      IN  /\ r.op = "add_review" /\ r.pc = "aggregate"
          /\ reqs' = [reqs EXCEPT ![i] =
                IF stats = <<>> THEN Respond(r, 200, "", [ok |-> TRUE], r.ops + 1)
                ELSE IF ~IsValidOid(r.arg.apt_id)
                THEN Respond(r, 500, "InvalidId", <<>>, r.ops + 1)
                ELSE Suspend(r, "update", stats[1], r.ops + 1)]
          /\ UNCHANGED <<store, nextOid, clock, tokens, budget>>

\* add_review: the update_one of the apartment's aggregate
add_review_update ==
    \E i \in DOMAIN reqs :
      LET r == reqs[i] IN
      /\ r.op = "add_review" /\ r.pc = "update"
      /\ apartment' = UpdateOne(apartment, ObjectId(r.arg.apt_id),
                                [rating_avg |-> r.loc.avg, rating_count |-> r.loc.count])
      /\ reqs' = [reqs EXCEPT ![i] = Respond(r, 200, "", [ok |-> TRUE], r.ops + 1)]
      /\ UNCHANGED <<user, vendorkyc, review, favorite, messagethread, message,
                     bookinginterest, nextOid, clock, tokens, budget>>

\* POST /apartments/{apt_id}/reviews: the payload names apt_id or another id
add_review ==
    /\ budget > 0
    /\ \E tok \in tokens, a \in idStrings(apartment), rating \in Ratings :
       \E pa \in {a, Absent} :
          add_review_insert(NewReq("add_review", tok,
                                   [apt_id |-> a, apartment_id |-> pa, rating |-> rating]))

\* a student and a vendor have registered
RevUsers == << NewUser(1, "user", "s1", "pw"), NewUser(2, "vendor", "v1", "pw") >>

\* the vendor's listing and its reviews at the start: none, or one review
\* of rating 5 that add_review has aggregated
RevSeeds ==
    { [apartment |-> <<NewApartment(3, Str(2), CHOOSE d \in ApartmentData : TRUE)>>,
       review |-> <<>>, nextOid |-> 4],
      [apartment |-> <<[NewApartment(3, Str(2), CHOOSE d \in ApartmentData : TRUE)
                          EXCEPT !.rating_avg = Quot(5, 1), !.rating_count = 1]>>,
       review |-> <<[_id |-> 4, apartment_id |-> Str(3), user_id |-> Str(1), rating |-> 5]>>,
       nextOid |-> 5] }

InitRev ==
    /\ user = RevUsers
    /\ tokens = {TokenOf(u) : u \in Range(RevUsers)}
    /\ vendorkyc = <<>> /\ favorite = <<>> /\ messagethread = <<>> /\ message = <<>>
    /\ bookinginterest = <<>>
    /\ \E seed \in RevSeeds :
          apartment = seed.apartment /\ review = seed.review /\ nextOid = seed.nextOid
    /\ clock = 0
    /\ budget = MaxRevReqs
    /\ reqs = <<>>

StepRev == add_review_aggregate \/ add_review_update

NextRev == add_review \/ StepRev

\* add_review requests, their store operations interleaved
SpecRev == InitRev /\ [][NextRev]_vars

NextRevSeq == (Quiet /\ add_review) \/ StepRev

\* add_review requests one at a time
SpecRevSeq == InitRev /\ [][NextRevSeq]_vars

----------------------------------------------------------------------------
(* Registration and login.                                                 *)

Emails == {"a@x.io", "b@x.io"}

Passwords == {"p1", "p2"}

\* RegisterRequest.role is any string
Roles == {"user", "vendor", "guest"}

\* register, up to and including its find_one
register_find(r) ==
    /\ UNCHANGED <<store, nextOid, clock, tokens>>
    /\ \E found \in FindOne({u \in Range(user) : u.email = r.arg.email}) :
         IF found # <<>>
         THEN Issue(Respond(r, 400, "Email already registered", <<>>, 1))
         ELSE Issue(Suspend(r, "insert", <<>>, 1))

\* register: the insert_one of the user and the token for it
register_insert ==
    \E i \in DOMAIN reqs :
      LET r == reqs[i]
          token == create_access_token(Str(nextOid), r.arg.role)
      IN  /\ r.op = "register" /\ r.pc = "insert"
          /\ user' = Append(user, NewUser(nextOid, r.arg.role, r.arg.email, r.arg.password))
          /\ nextOid' = nextOid + 1
          /\ tokens' = tokens \cup {token}
          /\ reqs' = [reqs EXCEPT ![i] =
                Respond(r, 200, "", [access_token |-> token], r.ops + 1)]
          /\ UNCHANGED <<vendorkyc, apartment, review, favorite, messagethread, message,
                         bookinginterest, clock, budget>>

\* POST /auth/register
register ==
    /\ budget > 0
    /\ \E role \in Roles, email \in Emails, password \in Passwords :
          register_find(NewReq("register", Anonymous,
                               [role |-> role, email |-> email, password |-> password]))

\* POST /auth/login
login ==
    /\ budget > 0
    /\ \E email \in Emails, password \in Passwords :
       LET r == NewReq("login", Anonymous, [email |-> email, password |-> password]) IN
       \E found \in FindOne({u \in Range(user) : u.email = email}) :
         /\ UNCHANGED <<store, nextOid, clock>>
         /\ IF found = <<>> \/ ~Verify(password, found[1].password_hash)
            THEN /\ Issue(Respond(r, 401, "Invalid credentials", <<>>, 1))
                 /\ UNCHANGED tokens
            ELSE LET token == create_access_token(Str(found[1]._id), found[1].role) IN
                 /\ Issue(Respond(r, 200, "", [access_token |-> token], 1))
                 /\ tokens' = tokens \cup {token}

\* GET /auth/me
me ==
    /\ budget > 0
    /\ \E tok \in tokens :
       LET r == NewReq("me", tok, <<>>)
           g == get_current_user(tok)
       IN  /\ UNCHANGED <<store, nextOid, clock, tokens>>
           /\ IF g # 200
              THEN Issue(Rejected(r, g))
              ELSE IF ~IsValidOid(tok.sub)
              THEN Issue(Respond(r, 500, "InvalidId", <<>>, 0))
              ELSE \E found \in FindOne({u \in Range(user) : u._id = ObjectId(tok.sub)}) :
                     Issue(Respond(r, 200, "",
                                   IF found = <<>> THEN <<>> ELSE WithId(found[1]), 1))

InitAuth ==
    /\ user = <<>>
    /\ tokens = {BadToken}
    /\ vendorkyc = <<>> /\ apartment = <<>> /\ review = <<>> /\ favorite = <<>>
    /\ messagethread = <<>> /\ message = <<>> /\ bookinginterest = <<>>
    /\ nextOid = 1 /\ clock = 0
    /\ budget = MaxAuthReqs
    /\ reqs = <<>>

StartAuth == register \/ login \/ me

NextAuth == StartAuth \/ register_insert

\* register, login and me requests, their store operations interleaved
SpecAuth == InitAuth /\ [][NextAuth]_vars

NextAuthSeq == (Quiet /\ StartAuth) \/ register_insert

\* register, login and me requests one at a time
SpecAuthSeq == InitAuth /\ [][NextAuthSeq]_vars

----------------------------------------------------------------------------
(* The remaining routes: KYC, listings, favorites, threads, bookings and   *)
(* the admin routes.                                                       *)

\* a request that is one store operation: rejected by the guard, or answered
guarded(r, answered) ==
    LET g == require_role(r.who, AllowedRoles(r.op)) IN
    IF g # 200 THEN Issue(Rejected(r, g)) ELSE Issue(answered)

\* a KYC record stored as the payload carries it
KycRecordAsSent(oid, payload, token) ==
    [_id |-> oid, user_id |-> payload.user_id, business_name |-> payload.business_name,
     status |-> payload.status, notes |-> Null]

\* payload.model_dump() updated with user_id and status, with its _id
KycRecord(oid, payload, token) ==
    SetFields([_id |-> oid, user_id |-> payload.user_id,
               business_name |-> payload.business_name,
               status |-> payload.status, notes |-> Null],
              [user_id |-> token.sub, status |-> "pending"])

\* POST /vendor/kyc: the payload carries any user_id and any status
submit_kyc ==
    /\ budget > 0
    /\ \E tok \in tokens, status \in {"pending", "approved"},
          uid \in {Str(u._id) : u \in Range(user)} \cup {Absent} :
       LET r == NewReq("submit_kyc", tok,
                       [user_id |-> uid, business_name |-> "biz", status |-> status])
           g == require_role(tok, AllowedRoles("submit_kyc"))
       IN  /\ IF g # 200
              THEN Issue(Rejected(r, g)) /\ UNCHANGED <<vendorkyc, nextOid>>
              ELSE /\ vendorkyc' = Append(vendorkyc, KycRecord(nextOid, r.arg, tok))
                   /\ nextOid' = nextOid + 1
                   /\ Issue(Respond(r, 200, "", [ok |-> TRUE], 1))
           /\ UNCHANGED <<user, apartment, review, favorite, messagethread, message,
                          bookinginterest, clock, tokens>>

\* GET /vendor/kyc
get_my_kyc ==
    /\ budget > 0
    /\ \E tok \in tokens :
       LET r == NewReq("get_my_kyc", tok, <<>>) IN
       /\ guarded(r, Respond(r, 200, "",
             list_with_id(Find(vendorkyc, {k \in Range(vendorkyc) : k.user_id = tok.sub})), 1))
       /\ UNCHANGED <<store, nextOid, clock, tokens>>

\* POST /apartments
create_apartment ==
    /\ budget > 0
    /\ \E tok \in tokens, data \in ApartmentData :
       LET r == NewReq("create_apartment", tok, data)
           g == require_role(tok, AllowedRoles("create_apartment"))
       IN  /\ IF g # 200
              THEN Issue(Rejected(r, g)) /\ UNCHANGED <<apartment, nextOid>>
              ELSE /\ apartment' = Append(apartment, NewApartment(nextOid, tok.sub, data))
                   /\ nextOid' = nextOid + 1
                   /\ Issue(Respond(r, 200, "", [id |-> Str(nextOid)], 1))
           /\ UNCHANGED <<user, vendorkyc, review, favorite, messagethread, message,
                          bookinginterest, clock, tokens>>

\* GET /apartments/{apt_id}: no token is asked for
get_apartment ==
    /\ budget > 0
    /\ \E a \in idStrings(apartment) :
       LET r == NewReq("get_apartment", Anonymous, [apt_id |-> a]) IN
       /\ UNCHANGED <<store, nextOid, clock, tokens>>
       /\ IF ~IsValidOid(a)
          THEN Issue(Respond(r, 500, "InvalidId", <<>>, 0))
          ELSE \E doc \in FindOne({d \in Range(apartment) : d._id = ObjectId(a)}) :
                 IF doc = <<>>
                 THEN Issue(Respond(r, 404, "Not found", <<>>, 1))
                 ELSE Issue(Respond(r, 200, "", WithId(doc[1]), 1))

\* GET /favorites, up to the find of the favorites and the ObjectId of each
my_favorites ==
    /\ budget > 0
    /\ \E tok \in tokens :
       LET r == NewReq("my_favorites", tok, <<>>)
           favs == Find(favorite, {f \in Range(favorite) : f.user_id = tok.sub})
       IN  /\ UNCHANGED <<store, nextOid, clock, tokens>>
           /\ guarded(r,
                 IF \E k \in DOMAIN favs : ~IsValidOid(favs[k].apartment_id)
                 THEN Respond(r, 500, "InvalidId", <<>>, 1)
                 ELSE IF favs = <<>> THEN Respond(r, 200, "", <<>>, 1)
                 ELSE Suspend(r, "apartments",
                              {ObjectId(favs[k].apartment_id) : k \in DOMAIN favs}, 1))

\* my_favorites: the find of the apartments with _id in apt_ids
my_favorites_apartments ==
    \E i \in DOMAIN reqs :
      LET r == reqs[i] IN
      /\ r.op = "my_favorites" /\ r.pc = "apartments"
      /\ reqs' = [reqs EXCEPT ![i] = Respond(r, 200, "",
            list_with_id(Find(apartment, {d \in Range(apartment) : d._id \in r.loc})),
            r.ops + 1)]
      /\ UNCHANGED <<store, nextOid, clock, tokens, budget>>

\* GET /threads
my_threads ==
    /\ budget > 0
    /\ \E tok \in tokens :
       LET r == NewReq("my_threads", tok, <<>>)
           mine == {t \in Range(messagethread) :
                       IF tok.role = "user" THEN t.student_id = tok.sub
                       ELSE t.vendor_id = tok.sub}
       IN  /\ UNCHANGED <<store, nextOid, clock, tokens>>
           /\ \E items \in Sort(Find(messagethread, mine), "last_time", -1) :
                 guarded(r, Respond(r, 200, "", list_with_id(items), 1))

\* POST /bookings, up to and including the find_one of the apartment
create_booking ==
    /\ budget > 0
    /\ \E tok \in tokens, a \in idStrings(apartment) :
       LET r == NewReq("create_booking", tok, [apartment_id |-> a, message |-> "hello"])
           g == require_role(tok, AllowedRoles("create_booking"))
       IN  /\ UNCHANGED <<store, nextOid, clock, tokens>>
           /\ IF g # 200
              THEN Issue(Rejected(r, g))
              ELSE IF ~IsValidOid(a)
              THEN Issue(Respond(r, 500, "InvalidId", <<>>, 0))
              ELSE \E apt \in FindOne({d \in Range(apartment) : d._id = ObjectId(a)}) :
                     IF apt = <<>>
                     THEN Issue(Respond(r, 404, "Apartment not found", <<>>, 1))
                     ELSE Issue(Suspend(r, "insert", apt[1], 1))

\* create_booking: the insert_one of the booking interest
create_booking_insert ==
    \E i \in DOMAIN reqs :
      LET r == reqs[i] IN
      /\ r.op = "create_booking" /\ r.pc = "insert"
      /\ bookinginterest' = Append(bookinginterest,
            [_id |-> nextOid, apartment_id |-> r.arg.apartment_id, user_id |-> r.who.sub,
             vendor_id |-> r.loc.vendor_id, message |-> r.arg.message, status |-> "pending"])
      /\ nextOid' = nextOid + 1
      /\ reqs' = [reqs EXCEPT ![i] = Respond(r, 200, "", [ok |-> TRUE], r.ops + 1)]
      /\ UNCHANGED <<user, vendorkyc, apartment, review, favorite, messagethread, message,
                     clock, tokens, budget>>

\* GET /bookings
my_bookings ==
    /\ budget > 0
    /\ \E tok \in tokens :
       LET r == NewReq("my_bookings", tok, <<>>)
           mine == {b \in Range(bookinginterest) :
                       IF tok.role = "user" THEN b.user_id = tok.sub
                       ELSE b.vendor_id = tok.sub}
       IN  /\ UNCHANGED <<store, nextOid, clock, tokens>>
           /\ \E items \in Sort(Find(bookinginterest, mine), "created_at", -1) :
                 guarded(r, Respond(r, 200, "", list_with_id(items), 1))

\* the k-th count_documents of admin_overview
OverviewCount(k) ==
    CASE k = 1 -> Len(user)
      [] k = 2 -> Cardinality({i \in DOMAIN user : user[i].role = "vendor"})
      [] k = 3 -> Len(apartment)
      [] k = 4 -> Cardinality({i \in DOMAIN apartment : apartment[i].is_available})
      [] k = 5 -> Len(bookinginterest)
      [] k = 6 -> Cardinality({i \in DOMAIN vendorkyc : vendorkyc[i].status = "pending"})

\* GET /admin/overview, up to and including its first count_documents
admin_overview ==
    /\ budget > 0
    /\ \E tok \in tokens :
       LET r == NewReq("admin_overview", tok, <<>>) IN
       /\ UNCHANGED <<store, nextOid, clock, tokens>>
       /\ guarded(r, Suspend(r, "count", <<OverviewCount(1)>>, 1))

\* admin_overview: the next count_documents; the sixth completes the answer
admin_overview_count ==
    \E i \in DOMAIN reqs :
      LET r == reqs[i]
          counts == Append(r.loc, OverviewCount(r.ops + 1))
      IN  /\ r.op = "admin_overview" /\ r.pc = "count"
          /\ reqs' = [reqs EXCEPT ![i] =
                IF Len(counts) = 6
                THEN Respond(r, 200, "",
                        [users |-> counts[1], vendors |-> counts[2], apartments |-> counts[3],
                         active_listings |-> counts[4], bookings |-> counts[5],
                         pending_kyc |-> counts[6]], r.ops + 1)
                ELSE Suspend(r, "count", counts, r.ops + 1)]
          /\ UNCHANGED <<store, nextOid, clock, tokens, budget>>

\* GET /admin/kyc
admin_list_kyc ==
    /\ budget > 0
    /\ \E tok \in tokens :
       LET r == NewReq("admin_list_kyc", tok, <<>>) IN
       /\ guarded(r, Respond(r, 200, "",
             list_with_id(Find(vendorkyc, {k \in Range(vendorkyc) : k.status = "pending"})), 1))
       /\ UNCHANGED <<store, nextOid, clock, tokens>>

\* POST /admin/kyc/decision
admin_kyc_decision ==
    /\ budget > 0
    /\ \E tok \in tokens, id \in idStrings(vendorkyc), approve \in BOOLEAN :
       LET r == NewReq("admin_kyc_decision", tok,
                       [id |-> id, approve |-> approve, notes |-> "seen"])
           g == require_role(tok, AllowedRoles("admin_kyc_decision"))
       IN  /\ IF g # 200
              THEN Issue(Rejected(r, g)) /\ UNCHANGED vendorkyc
              ELSE IF ~IsValidOid(id)
              THEN Issue(Respond(r, 500, "InvalidId", <<>>, 0)) /\ UNCHANGED vendorkyc
              ELSE /\ vendorkyc' = UpdateOne(vendorkyc, ObjectId(id),
                         [status |-> IF approve THEN "approved" ELSE "rejected",
                          notes |-> r.arg.notes])
                   /\ Issue(Respond(r, 200, "", [ok |-> TRUE], 1))
           /\ UNCHANGED <<user, apartment, review, favorite, messagethread, message,
                          bookinginterest, nextOid, clock, tokens>>

\* GET /admin/listings
admin_listings ==
    /\ budget > 0
    /\ \E tok \in tokens :
       LET r == NewReq("admin_listings", tok, <<>>) IN
       /\ guarded(r, Respond(r, 200, "", list_with_id(apartment), 1))
       /\ UNCHANGED <<store, nextOid, clock, tokens>>

\* POST /admin/listings/availability
admin_toggle_listing ==
    /\ budget > 0
    /\ \E tok \in tokens, id \in idStrings(apartment), avail \in BOOLEAN :
       LET r == NewReq("admin_toggle_listing", tok, [id |-> id, is_available |-> avail])
           g == require_role(tok, AllowedRoles("admin_toggle_listing"))
       IN  /\ IF g # 200
              THEN Issue(Rejected(r, g)) /\ UNCHANGED apartment
              ELSE IF ~IsValidOid(id)
              THEN Issue(Respond(r, 500, "InvalidId", <<>>, 0)) /\ UNCHANGED apartment
              ELSE /\ apartment' = UpdateOne(apartment, ObjectId(id), [is_available |-> avail])
                   /\ Issue(Respond(r, 200, "", [ok |-> TRUE], 1))
           /\ UNCHANGED <<user, vendorkyc, review, favorite, messagethread, message,
                          bookinginterest, nextOid, clock, tokens>>

\* a student, a vendor, an admin and a user registered with role "guest"
AllUsers ==
    << NewUser(1, "user", "s1", "pw"), NewUser(2, "vendor", "v1", "pw"),
       NewUser(3, "admin", "ad", "pw"), NewUser(4, "guest", "gu", "pw") >>

\* the vendor has a listing and a pending KYC record; the student has saved
\* the listing and opened a thread with the vendor
InitAll ==
    /\ user = AllUsers
    /\ tokens = {TokenOf(u) : u \in Range(AllUsers)} \cup {BadToken}
    /\ apartment = <<NewApartment(5, Str(2), CHOOSE d \in ApartmentData : TRUE)>>
    /\ messagethread = <<NewThread(6, Str(1), Str(2))>>
    /\ vendorkyc = <<[_id |-> 7, user_id |-> Str(2), business_name |-> "biz",
                      status |-> "pending", notes |-> Null]>>
    /\ favorite = <<[_id |-> 8, apartment_id |-> Str(5), user_id |-> Str(1)]>>
    /\ review = <<>> /\ message = <<>> /\ bookinginterest = <<>>
    /\ nextOid = 9 /\ clock = 0
    /\ budget = MaxAllReqs
    /\ reqs = <<>>

StartAll ==
    \/ me \/ submit_kyc \/ get_my_kyc \/ create_apartment \/ get_apartment
    \/ add_review \/ save_favorite \/ my_favorites
    \/ create_thread \/ send_message \/ my_threads \/ thread_messages
    \/ create_booking \/ my_bookings
    \/ admin_overview \/ admin_list_kyc \/ admin_kyc_decision \/ admin_listings
    \/ admin_toggle_listing

StepAll ==
    \/ StepMsg \/ StepRev \/ save_favorite_insert \/ my_favorites_apartments
    \/ create_booking_insert \/ admin_overview_count

NextAll == StartAll \/ StepAll

\* every route that takes a token or an id, concurrent requests
SpecAll == InitAll /\ [][NextAll]_vars

----------------------------------------------------------------------------
(* The KYC routes on their own.                                            *)

\* a student, two vendors and an admin have registered
KycUsers ==
    << NewUser(1, "user", "s1", "pw"), NewUser(2, "vendor", "v1", "pw"),
       NewUser(3, "vendor", "v2", "pw"), NewUser(4, "admin", "ad", "pw") >>

\* the KYC records at the start: none, or vendor 2 has submitted one
KycSeeds ==
    { [vendorkyc |-> <<>>, nextOid |-> 5],
      [vendorkyc |-> <<KycRecord(5, [user_id |-> Str(2), business_name |-> "biz",
                                     status |-> "pending"], TokenOf(KycUsers[2]))>>,
       nextOid |-> 6] }

InitKyc ==
    /\ user = KycUsers
    /\ tokens = {TokenOf(u) : u \in Range(KycUsers)}
    /\ \E seed \in KycSeeds : vendorkyc = seed.vendorkyc /\ nextOid = seed.nextOid
    /\ apartment = <<>> /\ review = <<>> /\ favorite = <<>> /\ messagethread = <<>>
    /\ message = <<>> /\ bookinginterest = <<>>
    /\ clock = 0
    /\ budget = MaxKycReqs
    /\ reqs = <<>>

NextKyc == submit_kyc \/ get_my_kyc \/ admin_list_kyc \/ admin_kyc_decision

\* the KYC requests; each is one store operation
SpecKyc == InitKyc /\ [][NextKyc]_vars

----------------------------------------------------------------------------
(* The routes that write apartments.                                       *)

\* a student, a vendor and an admin have registered
RateUsers ==
    << NewUser(1, "user", "s1", "pw"), NewUser(2, "vendor", "v1", "pw"),
       NewUser(3, "admin", "ad", "pw") >>

InitRate ==
    /\ user = RateUsers
    /\ tokens = {TokenOf(u) : u \in Range(RateUsers)}
    /\ \E n \in 0..1 :
          /\ apartment = SubSeq(<<NewApartment(4, Str(2), CHOOSE d \in ApartmentData : TRUE)>>,
                                1, n)
          /\ nextOid = 4 + n
    /\ vendorkyc = <<>> /\ review = <<>> /\ favorite = <<>> /\ messagethread = <<>>
    /\ message = <<>> /\ bookinginterest = <<>>
    /\ clock = 0
    /\ budget = MaxRateReqs
    /\ reqs = <<>>

NextRate == create_apartment \/ admin_toggle_listing \/ add_review \/ StepRev

\* create_apartment, admin_toggle_listing and add_review requests, their
\* store operations interleaved
SpecRate == InitRate /\ [][NextRate]_vars

----------------------------------------------------------------------------
(* The routes that list a principal's own records.                         *)

\* two students and two vendors have registered
MineUsers ==
    << NewUser(1, "user", "s1", "pw"), NewUser(2, "user", "s2", "pw"),
       NewUser(3, "vendor", "v1", "pw"), NewUser(4, "vendor", "v2", "pw") >>

\* each vendor has a listing and a KYC record; student 1 has opened a thread
\* with vendor 3, saved listing 5 and booked it, student 2 the same with
\* vendor 4 and listing 6
InitMine ==
    /\ user = MineUsers
    /\ tokens = {TokenOf(u) : u \in Range(MineUsers)}
    /\ apartment = << NewApartment(5, Str(3), CHOOSE d \in ApartmentData : TRUE),
                      NewApartment(6, Str(4), CHOOSE d \in ApartmentData : TRUE) >>
    /\ messagethread = << NewThread(7, Str(1), Str(3)), NewThread(8, Str(2), Str(4)) >>
    /\ vendorkyc = << KycRecord(9, [user_id |-> Str(3), business_name |-> "biz",
                                    status |-> "pending"], TokenOf(MineUsers[3])),
                      KycRecord(10, [user_id |-> Str(4), business_name |-> "biz",
                                     status |-> "pending"], TokenOf(MineUsers[4])) >>
    /\ favorite = << [_id |-> 11, apartment_id |-> Str(5), user_id |-> Str(1)],
                     [_id |-> 12, apartment_id |-> Str(6), user_id |-> Str(2)] >>
    /\ bookinginterest =
          << [_id |-> 13, apartment_id |-> Str(5), user_id |-> Str(1), vendor_id |-> Str(3),
              message |-> "hello", status |-> "pending"],
             [_id |-> 14, apartment_id |-> Str(6), user_id |-> Str(2), vendor_id |-> Str(4),
              message |-> "hello", status |-> "pending"] >>
    /\ review = <<>> /\ message = <<>>
    /\ nextOid = 15 /\ clock = 0
    /\ budget = MaxMineReqs
    /\ reqs = <<>>

NextMine ==
    \/ my_threads \/ my_bookings \/ get_my_kyc \/ my_favorites \/ my_favorites_apartments
    \/ save_favorite \/ save_favorite_insert \/ create_booking \/ create_booking_insert

\* the per-principal listings next to save_favorite and create_booking,
\* their store operations interleaved
SpecMine == InitMine /\ [][NextMine]_vars

----------------------------------------------------------------------------
(* The listing query: GET /apartments.  Strings that are split or matched  *)
(* are sequences of one-character strings.                                 *)

RECURSIVE Split(_)
\* str.split(","): the pieces between the commas, empty pieces included
Split(s) ==
    IF \A k \in DOMAIN s : s[k] # ","
    THEN <<s>>
    ELSE LET i == CHOOSE k \in DOMAIN s : s[k] = "," /\ \A l \in 1..(k - 1) : s[l] # ","
         IN  <<SubSeq(s, 1, i - 1)>> \o Split(SubSeq(s, i + 1, Len(s)))

\* the case folding of {"$options": "i"}
Lower(c) == CASE c = "A" -> "a" [] c = "B" -> "b" [] c = "C" -> "c" [] OTHER -> c

\* {"$regex": q, "$options": "i"} on a string field: the pattern, its
\* characters literals or the wildcard ".", matches somewhere in the text;
\* a null field matches no pattern
RegexSearch(pattern, text) ==
    /\ text # None
    /\ \E off \in 0..(Len(text[1]) - Len(pattern)) :
         \A k \in DOMAIN pattern :
            pattern[k] = "." \/ Lower(pattern[k]) = Lower(text[1][off + k])

\* an overlap test in place of $all
ContainsAny(array, wanted) == \E k \in DOMAIN wanted : wanted[k] \in Range(array)

\* {"$all": wanted} on an array field
ContainsAll(array, wanted) == \A k \in DOMAIN wanted : wanted[k] \in Range(array)

\* the truth value Python gives an Optional[str]: None and "" are false
Truthy(opt, empty) == opt # None /\ opt[1] # empty

\* price_range of list_apartments: the keys $gte and $lte that are present
PriceRange(min_price, max_price) ==
    [k \in (IF min_price # None THEN {"$gte"} ELSE {})
           \cup (IF max_price # None THEN {"$lte"} ELSE {})
       |-> IF k = "$gte" THEN min_price[1] ELSE max_price[1]]

\* the query dict list_apartments builds from its parameters
Query(arg) ==
    LET keys == (IF Truthy(arg.school, "") THEN {"school"} ELSE {})
                \cup (IF Truthy(arg.q, <<>>) THEN {"$or"} ELSE {})
                \cup (IF DOMAIN PriceRange(arg.min_price, arg.max_price) # {}
                      THEN {"price_monthly"} ELSE {})
                \cup (IF Truthy(arg.amenities, <<>>) THEN {"amenities"} ELSE {})
    IN  [k \in keys |->
           CASE k = "school" -> arg.school[1]
             [] k = "$or" -> arg.q[1]
             [] k = "price_monthly" -> PriceRange(arg.min_price, arg.max_price)
             [] k = "amenities" -> Split(arg.amenities[1])]

\* the store's evaluation of the query on apartment document d: every key
\* of the query has to hold
Matches(d, query) ==
    \A k \in DOMAIN query :
       CASE k = "school" -> d.school = query[k]
         [] k = "$or" -> \/ RegexSearch(query[k], Some(d.title))
                         \/ RegexSearch(query[k], Some(d.location))
                         \/ RegexSearch(query[k], d.description)
         [] k = "price_monthly" ->
               /\ "$gte" \in DOMAIN query[k] => d.price_monthly >= query[k]["$gte"]
               /\ "$lte" \in DOMAIN query[k] => d.price_monthly <= query[k]["$lte"]
         [] k = "amenities" -> ContainsAll(d.amenities, query[k])

\* the values of the query parameters the clients send
SchoolParams == {None, Some(""), Some("uni")}

QParams == {None, Some(<<"B">>), Some(<<"a", ".">>)}

MinPriceParams == {None, Some(800), Some(1000)}

MaxPriceParams == {None, Some(0), Some(1000)}

AmenitiesParams ==
    {None, Some(<<>>), Some(<<"w">>), Some(<<"w", ",", "a">>), Some(<<"a", ",">>)}

\* GET /apartments: no token is asked for
list_apartments ==
    /\ budget > 0
    /\ \E school \in SchoolParams, q \in QParams, min_price \in MinPriceParams,
          max_price \in MaxPriceParams, amenities \in AmenitiesParams :
       LET r == NewReq("list_apartments", Anonymous,
                       [school |-> school, q |-> q, min_price |-> min_price,
                        max_price |-> max_price, amenities |-> amenities])
           found == Find(apartment, {d \in Range(apartment) : Matches(d, Query(r.arg))})
       IN  \E items \in Sort(found, "created_at", -1) :
              Issue(Respond(r, 200, "", list_with_id(items), 1))
    /\ UNCHANGED <<store, nextOid, clock, tokens>>

\* a vendor has registered
ListUsers == << NewUser(1, "vendor", "v1", "pw") >>

\* the listings the vendor has created, oldest first
Listings ==
    << NewApartment(2, Str(1),
          [title |-> <<"a", "b">>, description |-> None, school |-> "uni",
           location |-> <<"c">>, price_monthly |-> 500, amenities |-> << <<"w">> >>]),
       NewApartment(3, Str(1),
          [title |-> <<"c">>, description |-> Some(<<"A", "c">>), school |-> "uni",
           location |-> <<"c">>, price_monthly |-> 1000,
           amenities |-> << <<"w">>, <<"a">> >>]),
       NewApartment(4, Str(1),
          [title |-> <<"c">>, description |-> None, school |-> "poly",
           location |-> <<"b">>, price_monthly |-> 1500, amenities |-> << <<"a">> >>]) >>

InitList ==
    /\ user = ListUsers
    /\ tokens = {TokenOf(u) : u \in Range(ListUsers)}
    /\ \E n \in 0..Len(Listings) : apartment = SubSeq(Listings, 1, n) /\ nextOid = n + 2
    /\ vendorkyc = <<>> /\ review = <<>> /\ favorite = <<>> /\ messagethread = <<>>
    /\ message = <<>> /\ bookinginterest = <<>>
    /\ clock = 0
    /\ budget = MaxListReqs
    /\ reqs = <<>>

NextList == create_apartment \/ list_apartments

\* create_apartment and list_apartments requests; each is one store operation
SpecList == InitList /\ [][NextList]_vars

----------------------------------------------------------------------------
(* Claims about messaging.                                                 *)

\* the threads a request's thread_id names
ThreadsOf(r) ==
    {t \in Range(messagethread) : IsValidOid(r.arg.thread_id) /\ t._id = ObjectId(r.arg.thread_id)}

\* the principal of the token is the student or the vendor of the thread
IsParticipant(token, t) ==
    \/ token.role = "user" /\ token.sub = t.student_id
    \/ token.role = "vendor" /\ token.sub = t.vendor_id

\* C1: send_message and thread_messages on a thread T by a principal that is
\* neither T's student (role user) nor T's vendor (role vendor) end with 403
\* Forbidden, return nothing, and no stored message of T comes from such a
\* principal.
C1_OnlyParticipants ==
    /\ \A i \in DOMAIN reqs :
         LET r == reqs[i] IN
         (/\ r.op \in {"send_message", "thread_messages"}
          /\ \E t \in ThreadsOf(r) : ~IsParticipant(r.who, t))
         => r.pc = "done" /\ r.status = 403 /\ r.out = <<>>
    /\ \A m \in Range(message) : \A t \in Range(messagethread) :
         m.thread_id = Str(t._id)
         => \E tok \in tokens : tok.sub = m.from_user_id /\ IsParticipant(tok, t)

\* C1 witness: a thread holds a message, and a third user, a third vendor
\* and an admin have each been refused on it.
C1_Witness ==
    \E t \in Range(messagethread) :
      /\ \E m \in Range(message) : m.thread_id = Str(t._id)
      /\ \E i \in DOMAIN reqs :
           /\ reqs[i].op = "thread_messages" /\ reqs[i].status = 403
           /\ reqs[i].arg.thread_id = Str(t._id)
           /\ reqs[i].who.role \in {"user", "vendor"}
      /\ \E i \in DOMAIN reqs :
           /\ reqs[i].op = "send_message" /\ reqs[i].status = 403
           /\ reqs[i].arg.thread_id = Str(t._id)

\* the stored threads of the (student, vendor) pair of create_thread request r
SamePairThreads(r) ==
    {k \in DOMAIN messagethread :
        /\ messagethread[k].student_id = r.who.sub
        /\ messagethread[k].vendor_id = r.arg.vendor_id}

\* C2: with requests one at a time, a create_thread(S, V) that follows a
\* completed create_thread(S, V) returns the id the first returned and
\* inserts nothing: it issues its find_one only and one thread has the pair.
C2_CreateThreadIdempotent ==
    \A i, j \in DOMAIN reqs :
      LET a == reqs[i]
          b == reqs[j]
      IN  (/\ i < j /\ a.op = "create_thread" /\ b.op = "create_thread"
           /\ a.status = 200 /\ b.pc = "done"
           /\ a.who.sub = b.who.sub /\ a.arg.vendor_id = b.arg.vendor_id)
          => /\ b.status = 200 /\ b.out = a.out /\ b.ops = 1
             /\ Cardinality(SamePairThreads(b)) = 1

\* C2 witness: the first create_thread inserted the thread and the second
\* one, for the same pair, has completed.
C2_Witness ==
    \E i, j \in DOMAIN reqs :
      /\ i < j /\ reqs[i].op = "create_thread" /\ reqs[j].op = "create_thread"
      /\ reqs[i].status = 200 /\ reqs[i].ops = 2 /\ reqs[j].status = 200
      /\ reqs[i].who.sub = reqs[j].who.sub
      /\ reqs[i].arg.vendor_id = reqs[j].arg.vendor_id

\* C3: at most one MessageThread per (student_id, vendor_id) pair in every
\* reachable state, concurrent create_thread requests included.
C3_OneThreadPerPair ==
    \A k, l \in DOMAIN messagethread :
      (/\ messagethread[k].student_id = messagethread[l].student_id
       /\ messagethread[k].vendor_id = messagethread[l].vendor_id)
      => k = l


\* C4: at most one Favorite per (user_id, apartment_id) pair in every
\* reachable state, however the save_favorite requests interleave.
C4_OneFavoritePerPair ==
    \A k, l \in DOMAIN favorite :
      (/\ favorite[k].user_id = favorite[l].user_id
       /\ favorite[k].apartment_id = favorite[l].apartment_id)
      => k = l


\* the stored reviews of apartment a
StoredReviews(a) == {k \in DOMAIN review : review[k].apartment_id = Str(a._id)}

RECURSIVE TotalRating(_)
TotalRating(ks) ==
    IF ks = {} THEN 0
    ELSE LET k == CHOOSE x \in ks : TRUE IN review[k].rating + TotalRating(ks \ {k})

\* rating_count of a is the number of its stored reviews and rating_avg
\* their mean
AggregateIsTrue(a) ==
    /\ a.rating_count = Cardinality(StoredReviews(a))
    /\ a.rating_avg.num * Cardinality(StoredReviews(a))
         = TotalRating(StoredReviews(a)) * a.rating_avg.den

\* an add_review for apartment a has succeeded
Reviewed(a) ==
    \E i \in DOMAIN reqs :
      reqs[i].op = "add_review" /\ reqs[i].status = 200 /\ reqs[i].arg.apt_id = Str(a._id)

\* C7: with add_review requests one at a time, after each successful
\* add_review for an existing apartment its rating_count is the number of
\* stored reviews of the apartment and its rating_avg their mean.
C7_AggregateAfterReview ==
    Quiet => \A a \in Range(apartment) : Reviewed(a) => AggregateIsTrue(a)

\* C7 witness: reviews of rating 5 and 3 have been added one after the
\* other and the apartment shows rating_avg 4.0 and rating_count 2.
C7_Witness ==
    /\ Quiet /\ Len(reqs) = 2
    /\ \E a \in Range(apartment) :
         /\ \A i \in DOMAIN reqs :
              reqs[i].op = "add_review" /\ reqs[i].status = 200 /\ reqs[i].arg.apt_id = Str(a._id)
         /\ {reqs[i].arg.rating : i \in DOMAIN reqs} = {5, 3}
         /\ Cardinality(StoredReviews(a)) = 2
         /\ a.rating_count = 2 /\ a.rating_avg.num = 4 * a.rating_avg.den

\* C8: whenever no add_review for an apartment is in flight, its
\* rating_count is the number of its stored reviews and its rating_avg their
\* mean, however the add_review requests interleaved before.
C8_AggregateWhenQuiescent ==
    \A a \in Range(apartment) :
      (/\ StoredReviews(a) # {}
       /\ \A i \in DOMAIN reqs :
            (reqs[i].op = "add_review" /\ reqs[i].arg.apt_id = Str(a._id))
            => reqs[i].pc = "done")
      => AggregateIsTrue(a)


\* register request i found no user with its email and has stored one
Registered(i) == reqs[i].op = "register" /\ reqs[i].pc = "done" /\ reqs[i].ops = 2

\* C5: a register whose email was not stored succeeds; every login issued
\* after it with the same email and password succeeds; every register issued
\* after it with the same email fails with the duplicate-email error (400,
\* "Email already registered") and inserts nothing.
C5_RegisterThenLogin ==
    \A i \in DOMAIN reqs :
      Registered(i) =>
        /\ reqs[i].status = 200
        /\ \A j \in DOMAIN reqs :
             (/\ i \in reqs[j].after /\ reqs[j].pc = "done"
              /\ reqs[j].op = "login"
              /\ reqs[j].arg.email = reqs[i].arg.email
              /\ reqs[j].arg.password = reqs[i].arg.password)
             => reqs[j].status = 200
        /\ \A j \in DOMAIN reqs :
             (/\ i \in reqs[j].after /\ reqs[j].pc = "done"
              /\ reqs[j].op = "register"
              /\ reqs[j].arg.email = reqs[i].arg.email)
             => /\ reqs[j].status = 400
                /\ reqs[j].detail = "Email already registered"
                /\ reqs[j].ops = 1

\* a register, then a login with its credentials and a second register with
\* its email, all completed
C5_SequentialCase ==
    \E i, j, k \in DOMAIN reqs :
      /\ Registered(i) /\ i \in reqs[j].after /\ i \in reqs[k].after
      /\ reqs[j].op = "login" /\ reqs[j].arg.email = reqs[i].arg.email
      /\ reqs[j].arg.password = reqs[i].arg.password
      /\ reqs[k].op = "register" /\ reqs[k].arg.email = reqs[i].arg.email

\* C6: no two User records have the same email, in every reachable state,
\* concurrent register requests included.
C6_EmailUnique ==
    \A k, l \in DOMAIN user : user[k].email = user[l].email => k = l


\* the operations whose dependency is require_role
Protected ==
    {"submit_kyc", "get_my_kyc", "create_apartment", "add_review", "save_favorite",
     "my_favorites", "create_thread", "send_message", "my_threads", "thread_messages",
     "create_booking", "my_bookings", "admin_overview", "admin_list_kyc",
     "admin_kyc_decision", "admin_listings", "admin_toggle_listing"}

\* request r was refused by the role check before any store operation
RefusedByRole(r) ==
    r.pc = "done" /\ r.status = 403 /\ r.detail = "Insufficient permissions" /\ r.ops = 0

\* C9: a protected operation called by a principal whose role is not in the
\* operation's allowed-role set ends with 403 Forbidden before any store
\* operation; a user is refused on the vendor-only operations and an admin
\* on every operation outside the admin routes.
C9_RoleGuard ==
    \A i \in DOMAIN reqs :
      LET r == reqs[i] IN
      (r.op \in Protected /\ r.who.valid) =>
        /\ r.who.role \notin AllowedRoles(r.op) => RefusedByRole(r)
        /\ (r.who.role = "user" /\ r.op \in {"submit_kyc", "get_my_kyc", "create_apartment"})
              => RefusedByRole(r)
        /\ (r.who.role = "admin"
              /\ r.op \notin {"admin_overview", "admin_list_kyc", "admin_kyc_decision",
                              "admin_listings", "admin_toggle_listing"})
              => RefusedByRole(r)

\* C9 witness: a user has been refused on the vendor-only create_apartment
\* and no apartment has been stored for it.
C9_Witness ==
    \E i \in DOMAIN reqs :
      /\ reqs[i].op = "create_apartment" /\ reqs[i].who.role = "user"
      /\ RefusedByRole(reqs[i])
      /\ \A a \in Range(apartment) : a.vendor_id # reqs[i].who.sub

\* the id a caller supplies to request r
SuppliedId(r) ==
    CASE r.op = "get_apartment" -> r.arg.apt_id
      [] r.op \in {"send_message", "thread_messages"} -> r.arg.thread_id
      [] r.op = "create_booking" -> r.arg.apartment_id
      [] r.op \in {"admin_kyc_decision", "admin_toggle_listing"} -> r.arg.id
      [] r.op = "me" -> r.who.sub

\* C10: a lookup by a malformed id, once the guard has let the request in,
\* ends with 404 NotFound or 400 BadRequest and never with an unhandled
\* exception (500).
C10_MalformedIdHandled ==
    \A i \in DOMAIN reqs :
      LET r == reqs[i] IN
      (/\ r.op \in {"get_apartment", "send_message", "thread_messages", "create_booking",
                    "me", "admin_kyc_decision", "admin_toggle_listing"}
       /\ r.pc = "done" /\ r.status \notin {401, 403}
       /\ ~IsValidOid(SuppliedId(r)))
      => r.status \in {400, 404}

----------------------------------------------------------------------------
(* Claims about failures.                                                  *)

\* the store operations of an operation that insert or update, by their
\* position among the store operations the handler issues
WritePositions(op) ==
    CASE op \in {"submit_kyc", "create_apartment", "add_review", "admin_kyc_decision",
                 "admin_toggle_listing"} -> {1}
      [] op \in {"register", "save_favorite", "create_thread", "create_booking"} -> {2}
      [] op = "send_message" -> {2, 3}
      [] OTHER -> {}

\* request r has issued an insert or an update
Wrote(r) == \E k \in WritePositions(r.op) : k <= r.ops

\* request r has ended in a failure outcome
Failed(r) == r.pc = "done" /\ r.status >= 400

\* C11: an operation that ends in a failure outcome has issued no insert and
\* no update before the failing check, add_review (review insert, then the
\* conversion of apt_id) and send_message (message insert, then the thread
\* update) included.
C11_FailureWritesNothing ==
    \A i \in DOMAIN reqs : Failed(reqs[i]) => ~Wrote(reqs[i])

----------------------------------------------------------------------------
(* Claims about the listing query.                                         *)

\* the amenities a comma-separated string asks for: its maximal pieces
\* without a comma
Requested(s) ==
    {SubSeq(s, i, j) : <<i, j>> \in
        {x \in (1..(Len(s) + 1)) \X (0..Len(s)) :
            /\ x[1] <= x[2] + 1
            /\ \A k \in x[1]..x[2] : s[k] # ","
            /\ (x[1] = 1 \/ s[x[1] - 1] = ",")
            /\ (x[2] = Len(s) \/ s[x[2] + 1] = ",")}}

\* a string filter is present when a non-empty value is given
Present(opt, empty) == opt # None /\ opt[1] # empty

\* apartment a satisfies every present filter of the parameters arg; the
\* free text q is a case-insensitive pattern looked for in title, location
\* and description
Satisfies(a, arg) ==
    /\ Present(arg.school, "") => a.school = arg.school[1]
    /\ Present(arg.q, <<>>) =>
          \/ RegexSearch(arg.q[1], Some(a.title))
          \/ RegexSearch(arg.q[1], Some(a.location))
          \/ RegexSearch(arg.q[1], a.description)
    /\ arg.min_price # None => arg.min_price[1] <= a.price_monthly
    /\ arg.max_price # None => a.price_monthly <= arg.max_price[1]
    /\ Present(arg.amenities, <<>>) => Requested(arg.amenities[1]) \subseteq Range(a.amenities)

\* the apartments stored when request i, a single store operation, ran:
\* those that no later create_apartment has inserted
StoredAt(i) ==
    {a \in Range(apartment) :
        ~ \E j \in DOMAIN reqs :
            j > i /\ reqs[j].op = "create_apartment" /\ reqs[j].status = 200
                  /\ reqs[j].out.id = Str(a._id)}

\* C12: for every combination of present and absent filters (school, q,
\* min_price, max_price, amenities) and every stored set of apartments,
\* list_apartments returns exactly the apartments that satisfy all present
\* filters, each once: school equal, min_price <= price_monthly <= max_price
\* with both bounds inclusive and optional, all requested amenities contained.
C12_ListFilters ==
    \A i \in DOMAIN reqs :
      LET r == reqs[i]
          expected == {a \in StoredAt(i) : Satisfies(a, r.arg)}
      IN  r.op = "list_apartments" =>
            /\ r.status = 200
            /\ {r.out[k] : k \in DOMAIN r.out} = {WithId(a) : a \in expected}
            /\ Len(r.out) = Cardinality(expected)

\* C12 witness: with prices 500, 1000 and 1500 stored, min_price = 800
\* alone has returned exactly the listings at 1000 and 1500.
C12_Witness ==
    /\ {a.price_monthly : a \in Range(apartment)} = {500, 1000, 1500}
    /\ \E i \in DOMAIN reqs :
         LET r == reqs[i] IN
         /\ r.op = "list_apartments" /\ r.status = 200
         /\ r.arg.min_price = Some(800) /\ r.arg.max_price = None
         /\ r.arg.school = None /\ r.arg.q = None /\ r.arg.amenities = None
         /\ {r.out[k].price_monthly : k \in DOMAIN r.out} = {1000, 1500}
         /\ Len(r.out) = 2

\* the documents of a response are in the order they were created in when
\* dir = 1 and in the reverse order when dir = -1; the store hands out its
\* ObjectIds in increasing order
InCreationOrder(out, dir) ==
    \A k, l \in DOMAIN out : k < l => dir * out[k].id.n < dir * out[l].id.n

\* C13: thread_messages returns the messages of a thread in the order they
\* were posted in and list_apartments returns the listings newest first,
\* after every sequence of send_message and create_apartment calls.
C13_CreationOrder ==
    \A i \in DOMAIN reqs :
      LET r == reqs[i] IN
      /\ (r.op = "thread_messages" /\ r.status = 200) => InCreationOrder(r.out, 1)
      /\ (r.op = "list_apartments" /\ r.status = 200) => InCreationOrder(r.out, -1)

----------------------------------------------------------------------------
(* Claims about messages and threads.                                      *)

\* the stored messages of thread t, in the order they were stored in
MessagesOf(t) == SelectSeq(message, LAMBDA m : m.thread_id = Str(t._id))

\* a send_message for thread t is in flight
Sending(t) ==
    \E i \in DOMAIN reqs :
      /\ reqs[i].op = "send_message" /\ reqs[i].pc # "done"
      /\ reqs[i].arg.thread_id = Str(t._id)

\* C14: whenever no send_message for a thread is in flight, its last_message
\* is the body of the message of the thread stored last, and is empty iff
\* the thread has no message, also after concurrent send_message requests.
C14_LastMessageMirrors ==
    \A t \in Range(messagethread) :
      ~Sending(t) =>
        IF MessagesOf(t) = <<>>
        THEN t.last_message = Null
        ELSE t.last_message = MessagesOf(t)[Len(MessagesOf(t))].body

\* the send_message requests that have stored message m: they have passed
\* their insert and carry its thread, sender and body
SentBy(m) ==
    {i \in DOMAIN reqs :
        /\ reqs[i].op = "send_message" /\ reqs[i].ops >= 2
        /\ reqs[i].arg.thread_id = m.thread_id /\ reqs[i].arg.body = m.body
        /\ reqs[i].who.sub = m.from_user_id}

\* C15: every stored message has from_user_id the id of the principal that
\* posted it and to_user_id the other participant of its thread, so from and
\* to are exactly the thread's student and vendor; the payload of
\* send_message has no to_user_id.
C15_FromToParticipants ==
    /\ \A m \in Range(message) : \A t \in Range(messagethread) :
         m.thread_id = Str(t._id) =>
           /\ {m.from_user_id, m.to_user_id} = {t.student_id, t.vendor_id}
           /\ m.from_user_id = t.student_id => m.to_user_id = t.vendor_id
           /\ m.from_user_id = t.vendor_id => m.to_user_id = t.student_id
    /\ \A i \in DOMAIN reqs :
         reqs[i].op = "send_message" =>
           /\ DOMAIN reqs[i].arg = {"thread_id", "body"}
           /\ reqs[i].ops >= 2 => \E m \in Range(message) : i \in SentBy(m)

\* C15 witness: a thread holds a message from its student to its vendor and
\* a message from its vendor to its student.
C15_Witness ==
    \E t \in Range(messagethread) : \E m1, m2 \in Range(message) :
      /\ m1.thread_id = Str(t._id) /\ m2.thread_id = Str(t._id)
      /\ t.student_id # t.vendor_id
      /\ m1.from_user_id = t.student_id /\ m1.to_user_id = t.vendor_id
      /\ m2.from_user_id = t.vendor_id /\ m2.to_user_id = t.student_id

\* C16: every MessageThread joins a participant of role user and a
\* participant of role vendor: student_id is the id of a principal of role
\* user and vendor_id the id of a stored User of role vendor, whatever
\* vendor_id a caller passes to create_thread.
C16_ThreadJoinsUserAndVendor ==
    \A t \in Range(messagethread) :
      /\ \E tok \in tokens : tok.valid /\ tok.role = "user" /\ tok.sub = t.student_id
      /\ \E u \in Range(user) : u.role = "vendor" /\ Str(u._id) = t.vendor_id

----------------------------------------------------------------------------
(* Claims about users, KYC records and ratings.                            *)

\* C17: every stored User has a role among user, vendor and admin, whatever
\* role a caller passes to register, and its role is still the one it was
\* registered with.
C17_RoleInEnum ==
    \A u \in Range(user) :
      /\ u.role \in {"user", "vendor", "admin"}
      /\ \E i \in DOMAIN reqs :
           /\ reqs[i].op = "register" /\ reqs[i].status = 200
           /\ reqs[i].out.access_token.sub = Str(u._id)
           /\ reqs[i].arg.role = u.role

\* the request issued in the step, if one was
IssuedNow == IF Len(reqs') = Len(reqs) + 1 THEN {reqs'[Len(reqs')]} ELSE {}

\* C18: the status of a VendorKYC record changes only through
\* admin_kyc_decision called by a principal of role admin; submit_kyc stores
\* status pending and the submitting principal's id as user_id whatever the
\* payload carries; no other operation writes a KYC record.
C18_StatusOnlyByAdmin ==
    [][\A k \in DOMAIN vendorkyc' :
         IF k \in DOMAIN vendorkyc
         THEN /\ vendorkyc'[k].user_id = vendorkyc[k].user_id
              /\ vendorkyc'[k].status # vendorkyc[k].status =>
                   \E r \in IssuedNow :
                     /\ r.op = "admin_kyc_decision" /\ r.who.role = "admin"
                     /\ r.arg.id = Str(vendorkyc[k]._id)
         ELSE \E r \in IssuedNow :
                /\ r.op = "submit_kyc" /\ r.who.role = "vendor"
                /\ vendorkyc'[k].status = "pending"
                /\ vendorkyc'[k].user_id = r.who.sub]_vars

\* C18 witness: a vendor has submitted a payload carrying status approved
\* and the id of somebody else, and the record it stored, under the
\* vendor's own id, has since been decided by the admin.
C18_Witness ==
    \E i, j \in DOMAIN reqs : \E k \in Range(vendorkyc) :
      /\ reqs[i].op = "submit_kyc" /\ reqs[i].status = 200
      /\ reqs[i].arg.status = "approved" /\ reqs[i].arg.user_id # reqs[i].who.sub
      /\ reqs[j].op = "admin_kyc_decision" /\ reqs[j].status = 200 /\ i < j
      /\ reqs[j].arg.id = Str(k._id)
      /\ k.user_id = reqs[i].who.sub /\ k.status \in {"approved", "rejected"}
      /\ Len(vendorkyc) = 1

\* the step is the aggregate write of an add_review for apartment a
AggregateWrite(a) ==
    \E i \in DOMAIN reqs :
      /\ reqs[i].op = "add_review" /\ reqs[i].pc = "update" /\ reqs'[i].pc = "done"
      /\ reqs[i].arg.apt_id = Str(a._id)

\* C19: rating_avg and rating_count of an apartment are never written by a
\* client: create_apartment stores 0.0 and 0 whatever the body holds,
\* admin_toggle_listing changes is_available only and every step but the
\* aggregate write of add_review leaves both fields as they were.
C19_RatingNotClientWritable ==
    [][\A k \in DOMAIN apartment' :
         IF k \in DOMAIN apartment
         THEN /\ (\/ apartment'[k].rating_avg # apartment[k].rating_avg
                  \/ apartment'[k].rating_count # apartment[k].rating_count)
                    => AggregateWrite(apartment[k])
              /\ (\E r \in IssuedNow : r.op = "admin_toggle_listing")
                    => apartment'[k] = [apartment[k] EXCEPT
                                           !.is_available = apartment'[k].is_available]
         ELSE /\ \E r \in IssuedNow : r.op = "create_apartment"
              /\ apartment'[k].rating_avg = Quot(0, 1)
              /\ apartment'[k].rating_count = 0]_vars

\* C19 witness: a listing whose body carried a rating of 5.0 over 7 reviews
\* was stored unrated and has since been taken off by the admin, still
\* unrated.
C19_Witness ==
    \E i, j \in DOMAIN reqs : \E a \in Range(apartment) :
      /\ reqs[i].op = "create_apartment" /\ reqs[i].status = 200
      /\ reqs[i].arg.rating_count = 7 /\ reqs[i].out.id = Str(a._id)
      /\ reqs[j].op = "admin_toggle_listing" /\ reqs[j].status = 200
      /\ reqs[j].arg.id = Str(a._id) /\ ~reqs[j].arg.is_available
      /\ ~a.is_available /\ a.rating_count = 0 /\ a.rating_avg = Quot(0, 1)

----------------------------------------------------------------------------
(* Claims about the per-principal listings.                                *)

\* C20: the per-principal listings return only records of the caller:
\* my_threads only threads whose student_id (role user) or vendor_id (role
\* vendor) is the caller's id, my_bookings only bookings whose user_id or
\* vendor_id is, get_my_kyc only KYC records whose user_id is, and
\* my_favorites only apartments the caller has saved.
C20_OnlyOwnRecords ==
    \A i \in DOMAIN reqs :
      LET r == reqs[i] IN
      (r.pc = "done" /\ r.status = 200) =>
        /\ r.op = "my_threads" => \A k \in DOMAIN r.out :
              /\ r.who.role = "user" => r.out[k].student_id = r.who.sub
              /\ r.who.role = "vendor" => r.out[k].vendor_id = r.who.sub
        /\ r.op = "my_bookings" => \A k \in DOMAIN r.out :
              r.out[k].user_id = r.who.sub \/ r.out[k].vendor_id = r.who.sub
        /\ r.op = "get_my_kyc" => \A k \in DOMAIN r.out : r.out[k].user_id = r.who.sub
        /\ r.op = "my_favorites" => \A k \in DOMAIN r.out :
              \E f \in Range(favorite) :
                 f.user_id = r.who.sub /\ f.apartment_id = r.out[k].id

\* C20 witness: with records of two students and two vendors stored, a
\* student's my_threads and a vendor's my_bookings have each returned one
\* record, the caller's own.
C20_Witness ==
    /\ Len(messagethread) >= 2 /\ Len(bookinginterest) >= 2
    /\ \E i, j \in DOMAIN reqs :
         /\ reqs[i].op = "my_threads" /\ reqs[i].status = 200
         /\ reqs[i].who.role = "user" /\ Len(reqs[i].out) = 1
         /\ reqs[j].op = "my_bookings" /\ reqs[j].status = 200
         /\ reqs[j].who.role = "vendor" /\ Len(reqs[j].out) = 1

====
